---------------------------- MODULE Spec2Model ----------------------------
(***************************************************************************)
(* Model of the company-domains scraper: the four scripts                  *)
(*   src/scrape_domains.py          ("plain":   no resume, one save)        *)
(*   src/scrape_domains_SAFE.py     ("SAFE":    resume, save every 50)      *)
(*   src/scrape_domains_rtlimit.py  ("rtlimit": YahooRateLimiter, resume)   *)
(*   src/TryAgain.py                ("TryAgain": stockanalysis.com, resume) *)
(*                                                                         *)
(* Strings of the program are sequences of one-character strings, so that  *)
(* startswith, slicing and the CSV conversions are computed, not assumed.  *)
(***************************************************************************)
EXTENDS Integers, Sequences, FiniteSets, TLC

VARIABLES
    \* ---- YahooRateLimiter (scrape_domains_rtlimit.py) ----
    clock,                  \* wall clock, in ticks (datetime.now())
    now,                    \* local variable `now` of wait_if_needed
    requests_per_minute,
    requests_per_hour,
    requests_per_day,
    minute_start,
    hour_start,
    day_start,
    rl_pc,                  \* position inside get_company_website(ticker, rate_limiter)
    recorded,               \* history: issue time of every request record_request counted
    \* ---- main of each script ----
    variant,        \* which script runs
    input,          \* the ticker file
    csv,            \* the output file (company_domains.csv, stockanalysis_results.csv)
    domfile,        \* the domain file (domains_only.txt, stockanalysis_domains.txt)
    pc,             \* "start", "loop", "done" (main returned), "dead" (process killed)
    tickers,        \* the list main iterates over
    i,              \* position of the loop in tickers (enumerate(tickers, 1))
    results,        \* the list of result dicts
    run,            \* number of the current run
    \* ---- history of the runs ----
    log,            \* this run: tickers fetched, rate-limited, ended in an error
    prev,           \* the log of the previous run
    csv_at_start,   \* the output file as this run found it
    last_save,      \* the last call of save_progress in this run
    \* ---- one call of get_company_website, attempt by attempt ----
    fetcher,        \* which script's get_company_website
    f_pc,           \* "idle", "request", "backoff", "returned"
    url_index,      \* position in urls_to_try (scrape_domains.py)
    retry_total,    \* Retry.total still left for the current URL
    attempts,       \* requests sent for the current ticker
    slept,          \* seconds of backoff slept for the current ticker
    last_outcome,   \* outcome of the last request
    f_ret,          \* the value get_company_website returned
    calls,          \* calls of get_company_website so far
    \* ---- one candidate URL through the filter and extract_domain_from_url ----
    x_script,       \* which script's functions
    x_url,          \* the candidate
    x_accepted,     \* what the domain filter said: "unknown", "accepted", "rejected"
    x_domain,       \* extract_domain_from_url(x_url)
    x_again,        \* extract_domain_from_url(x_domain)
    \* ---- one page through the extraction of the website ----
    p_script,       \* which script's extraction
    page,           \* the page: its elements in document order
    parsed          \* the website the extraction returned

rlVars == <<clock, now, requests_per_minute, requests_per_hour, requests_per_day,
            minute_start, hour_start, day_start, rl_pc, recorded>>

runVars == <<variant, input, csv, domfile, pc, tickers, i, results, run,
             log, prev, csv_at_start, last_save>>

fetchVars == <<fetcher, f_pc, url_index, retry_total, attempts, slept,
               last_outcome, f_ret, calls>>

urlVars == <<x_script, x_url, x_accepted, x_domain, x_again>>

parseVars == <<p_script, page, parsed>>

pureVars == <<urlVars, parseVars>>

vars == <<rlVars, runVars, fetchVars, pureVars>>


-----------------------------------------------------------------------------
(* Strings.  A Python str is a sequence of one-character strings.           *)

\* The printable ASCII characters in code-point order (32..126, without the
\* grave accent, 96): Python compares and sorts str by code point.
Ascii ==
    <<
    " ", "!", "\"", "#", "$", "%", "&", "'", "(", ")", "*", "+", ",", "-",
    ".", "/", "0", "1", "2", "3", "4", "5", "6", "7", "8", "9", ":", ";",
    "<", "=", ">", "?", "@", "A", "B", "C", "D", "E", "F", "G", "H", "I",
    "J", "K", "L", "M", "N", "O", "P", "Q", "R", "S", "T", "U", "V", "W",
    "X", "Y", "Z", "[", "\\", "]", "^", "_", "a", "b", "c", "d", "e",
    "f", "g", "h", "i", "j", "k", "l", "m", "n", "o", "p", "q", "r", "s",
    "t", "u", "v", "w", "x", "y", "z", "{", "|", "}", "~"
    >>

Ord(c) ==
    LET k == CHOOSE j \in 1..Len(Ascii) : Ascii[j] = c
    IN IF k <= 64 THEN 31 + k ELSE 32 + k

LowerCase == <<"a","b","c","d","e","f","g","h","i","j","k","l","m","n","o","p","q","r","s","t","u","v","w","x","y","z">>
UpperCase == <<"A","B","C","D","E","F","G","H","I","J","K","L","M","N","O","P","Q","R","S","T","U","V","W","X","Y","Z">>

\* str.upper() and str.lower(), character by character.
UpperChar(c) ==
    IF \E k \in 1..Len(LowerCase) : LowerCase[k] = c
    THEN UpperCase[CHOOSE k \in 1..Len(LowerCase) : LowerCase[k] = c]
    ELSE c

LowerChar(c) ==
    IF \E k \in 1..Len(UpperCase) : UpperCase[k] = c
    THEN LowerCase[CHOOSE k \in 1..Len(UpperCase) : UpperCase[k] = c]
    ELSE c

Upper(s) == [k \in 1..Len(s) |-> UpperChar(s[k])]
Lower(s) == [k \in 1..Len(s) |-> LowerChar(s[k])]

\* s.startswith(p)
StartsWith(s, p) == Len(s) >= Len(p) /\ SubSeq(s, 1, Len(p)) = p

\* s[n:]
DropFirst(s, n) == SubSeq(s, n + 1, Len(s))

Whitespace == {" "}

\* str.strip()
RECURSIVE LStrip(_)
LStrip(s) == IF s # <<>> /\ Head(s) \in Whitespace THEN LStrip(Tail(s)) ELSE s

RECURSIVE RStrip(_)
RStrip(s) ==
    IF s # <<>> /\ s[Len(s)] \in Whitespace THEN RStrip(SubSeq(s, 1, Len(s) - 1)) ELSE s

Strip(s) == RStrip(LStrip(s))

\* a < b for two str (lexicographic by code point)
RECURSIVE StrLess(_, _)
StrLess(a, b) ==
    IF b = <<>> THEN FALSE
    ELSE IF a = <<>> THEN TRUE
    ELSE IF Head(a) = Head(b) THEN StrLess(Tail(a), Tail(b))
    ELSE Ord(Head(a)) < Ord(Head(b))

\* The literals of the scripts.
S_NA == <<"N","/","A">>
S_RATE_LIMITED == <<"R","A","T","E","_","L","I","M","I","T","E","D">>
S_NOT_FOUND == <<"N","O","T","_","F","O","U","N","D">>
S_ERROR == <<"E","R","R","O","R">>
S_http == <<"h","t","t","p",":","/","/">>
S_https == <<"h","t","t","p","s",":","/","/">>
S_www == <<"w","w","w",".">>

\* float('nan'), what pandas.read_csv gives for a missing value.  It is no
\* str: it equals no str, is not `in` a list or set of str, and cannot be
\* ordered against or concatenated to a str.
NaN == <<"float('nan')">>

\* pandas.read_csv, default na_values (keep_default_na=True): a field whose
\* text is one of these is read as NaN.
NA_VALUES ==
    {
    <<>>, <<"#","N","/","A">>, <<"#","N","/","A"," ","N","/","A">>,
    <<"#","N","A">>, <<"-","1",".","#","I","N","D">>,
    <<"-","1",".","#","Q","N","A","N">>, <<"-","N","a","N">>,
    <<"-","n","a","n">>, <<"1",".","#","I","N","D">>,
    <<"1",".","#","Q","N","A","N">>, <<"<","N","A",">">>, <<"N","/","A">>,
    <<"N","A">>, <<"N","U","L","L">>, <<"N","a","N">>, <<"N","o","n","e">>,
    <<"n","/","a">>, <<"n","a","n">>, <<"n","u","l","l">>
    }

\* urllib.parse.urlparse(url).netloc for a url that starts with http:// or
\* https://: what follows the "//" up to the first "/", "?" or "#".
RECURSIVE UpToDelimiter(_)
UpToDelimiter(s) ==
    IF s = <<>> \/ Head(s) \in {"/", "?", "#"} THEN <<>>
    ELSE <<Head(s)>> \o UpToDelimiter(Tail(s))

Netloc(url) ==
    IF StartsWith(url, S_https) THEN UpToDelimiter(DropFirst(url, Len(S_https)))
    ELSE IF StartsWith(url, S_http) THEN UpToDelimiter(DropFirst(url, Len(S_http)))
    ELSE <<>>

\* extract_domain_from_url of scrape_domains_SAFE.py and of
\* scrape_domains_rtlimit.py: no strip, and an empty netloc is returned as it is.
extract_domain_from_url_SAFE(url) ==
    IF url = <<>> \/ url = S_NA THEN S_NA
    ELSE LET u == IF StartsWith(url, S_http) \/ StartsWith(url, S_https)
                  THEN url ELSE S_https \o url
             domain == Netloc(u)
         IN IF StartsWith(domain, S_www) THEN DropFirst(domain, 4) ELSE domain

\* extract_domain_from_url of scrape_domains.py.
extract_domain_from_url_plain(url) ==
    IF url = <<>> \/ url = S_NA THEN S_NA
    ELSE LET s == Strip(url)
             u == IF StartsWith(s, S_http) \/ StartsWith(s, S_https)
                  THEN s ELSE S_https \o s
             netloc == Netloc(u)
             domain == IF StartsWith(netloc, S_www) THEN DropFirst(netloc, 4) ELSE netloc
         IN IF domain # <<>> THEN domain ELSE S_NA

\* extract_domain_from_url of TryAgain.py.
extract_domain_from_url_TryAgain(url) ==
    IF url = <<>> \/ Strip(url) = <<>> \/ url = S_NA THEN S_NA
    ELSE LET s == Strip(url)
             u == IF StartsWith(s, S_http) \/ StartsWith(s, S_https)
                  THEN s ELSE S_https \o s
             netloc == Netloc(u)
             domain == IF StartsWith(netloc, S_www) THEN DropFirst(netloc, 4) ELSE netloc
         IN IF domain # <<>> THEN domain ELSE S_NA

extract_domain_from_url(v, url) ==
    CASE v = "plain" -> extract_domain_from_url_plain(url)
      [] v = "TryAgain" -> extract_domain_from_url_TryAgain(url)
      [] OTHER -> extract_domain_from_url_SAFE(url)

-----------------------------------------------------------------------------
(* The persisted files.                                                     *)

Variants == {"plain", "SAFE", "rtlimit", "TryAgain"}

\* The keys of a result dict: scrape_domains.py 263-267, scrape_domains_SAFE.py
\* 246-250, scrape_domains_rtlimit.py 305-309, TryAgain.py 271-276.
Columns(v) ==
    IF v = "TryAgain" THEN {"Ticker", "Website_URL", "Domain", "Source_URL"}
    ELSE {"Ticker", "Website_URL", "Domain"}

\* TryAgain.py 46-47: f"https://stockanalysis.com/stocks/{ticker_lower}/company/"
S_stockanalysis == <<"h","t","t","p","s",":","/","/","s","t","o","c","k","a","n","a","l","y","s","i","s",".","c","o","m","/","s","t","o","c","k","s","/">>
S_company == <<"/","c","o","m","p","a","n","y","/">>
SourceUrl(ticker) == S_stockanalysis \o Lower(ticker) \o S_company

\* The dict appended to results for one ticker.
Record(v, ticker, website_url) ==
    [c \in Columns(v) |->
        CASE c = "Ticker" -> ticker
          [] c = "Website_URL" -> website_url
          [] c = "Domain" -> extract_domain_from_url(v, website_url)
          [] OTHER -> SourceUrl(ticker)]

\* A CSV file: the column names of its header line (none when the file has no
\* header line) and its data rows, each a function from column to field text.
NoFile == [exists |-> FALSE, columns |-> {}, rows |-> <<>>]

\* DataFrame.to_csv writes a missing value (NaN) as an empty field and a str
\* as its text.
WriteField(x) == IF x = NaN THEN <<>> ELSE x

\* pd.DataFrame(results).to_csv(output_file, index=False), run to its end.
\* An empty list makes a frame without columns: a file without a header.
to_csv(recs) ==
    [exists |-> TRUE,
     columns |-> IF recs = <<>> THEN {} ELSE DOMAIN recs[1],
     rows |-> [k \in 1..Len(recs) |->
                 [c \in DOMAIN recs[k] |-> WriteField(recs[k][c])]]]

\* pd.read_csv: a field whose text is a default NA value is read as NaN, any
\* other text as the str itself (the model's fields are never numeric).
ParseField(x) == IF x \in NA_VALUES THEN NaN ELSE x

\* pd.read_csv raises EmptyDataError on a file without a header line.
read_csv_raises(file) == file.columns = {}

\* pd.read_csv(output_file).to_dict('records')
read_csv(file) ==
    [k \in 1..Len(file.rows) |->
        [c \in DOMAIN file.rows[k] |-> ParseField(file.rows[k][c])]]

\* set(df['Ticker'].tolist())
TickerColumn(recs) == {recs[k]["Ticker"] : k \in 1..Len(recs)}

\* Whether the try block of the resume code runs to its end: the file exists,
\* read_csv does not raise and df['Ticker'] is a column.
LoadSucceeds(file) ==
    file.exists /\ ~read_csv_raises(file) /\ "Ticker" \in file.columns

\* load_existing_results of scrape_domains_SAFE.py: (results, completed), both
\* empty unless the whole try block succeeded.
load_existing_results(file) ==
    IF LoadSucceeds(file)
    THEN [results |-> read_csv(file), completed |-> TickerColumn(read_csv(file))]
    ELSE [results |-> <<>>, completed |-> {}]

\* main of scrape_domains_rtlimit.py 248-258 and of TryAgain.py 213-223:
\* existing_results is assigned as soon as read_csv has returned, the filter
\* is applied only when df['Ticker'] did not raise.
existing_results(file) ==
    IF file.exists /\ ~read_csv_raises(file) THEN read_csv(file) ELSE <<>>

-----------------------------------------------------------------------------
(* Reading the ticker file.                                                 *)

\* The ticker file: tickers.csv (kind "csv", `lines` are the fields of its
\* first column below the header) or tickers.txt (kind "txt").
InputKinds == {"csv", "txt"}

\* tickers.txt: [line.strip().upper() for line in f if line.strip()]
\* tickers.csv: df.iloc[:, 0].dropna().astype(str).str.strip().str.upper().tolist()
ReadTickers(inp) ==
    LET kept == IF inp.kind = "csv"
                THEN SelectSeq(inp.lines, LAMBDA l : l \notin NA_VALUES)
                ELSE SelectSeq(inp.lines, LAMBDA l : Strip(l) # <<>>)
    IN [k \in 1..Len(kept) |-> Upper(Strip(kept[k]))]

\* The list with its repeated tickers left in.
Dedupe_keep_all(s) == s

\* list(dict.fromkeys(tickers)): the first occurrence of each, in order.
RECURSIVE Dedupe(_)
Dedupe(s) ==
    IF s = <<>> THEN <<>>
    ELSE LET front == Dedupe(SubSeq(s, 1, Len(s) - 1))
             last == s[Len(s)]
         IN IF \E k \in 1..Len(front) : front[k] = last THEN front
            ELSE Append(front, last)

\* [t for t in tickers if t not in completed_tickers]
NotCompleted(ts, completed) == SelectSeq(ts, LAMBDA t : t \notin completed)

\* The list of tickers main is left with before its loop.
TickersToProcess(v, inp, file) ==
    CASE v = "plain" -> Dedupe(ReadTickers(inp))
      [] v = "SAFE" ->
           Dedupe(NotCompleted(ReadTickers(inp), load_existing_results(file).completed))
      [] OTHER ->
           IF LoadSucceeds(file)
           THEN NotCompleted(Dedupe(ReadTickers(inp)), TickerColumn(read_csv(file)))
           ELSE Dedupe(ReadTickers(inp))

\* The list `results` starts from.
InitialResults(v, file) ==
    CASE v = "plain" -> <<>>
      [] v = "SAFE" -> load_existing_results(file).results
      [] OTHER -> existing_results(file)

-----------------------------------------------------------------------------
(* Fetching one ticker, seen from main.                                     *)

\* What the HTTP exchange for one ticker ends in: a status, or "exception"
\* for a timeout or a connection error.
HttpOutcomes == {"200", "429", "404", "500", "exception"}

\* What the page of a 200 response yields for a ticker: the link to the
\* company's site, or nothing ('N/A').  Two of the tickers share a site.
U_A == <<"h","t","t","p","s",":","/","/","w","w","w",".","b",".","c","o","/","x">>
U_B == <<"h","t","t","p",":","/","/","a",".","c","o">>
SiteOf(ticker) == IF ticker = <<"B">> THEN U_B ELSE U_A
Candidates(ticker) == {SiteOf(ticker), S_NA}

\* get_company_website without the check of status 429: a rate-limited
\* response is handled like any other failed request.
get_company_website_no_429(v, http, cand) ==
    CASE v = "TryAgain" ->
           IF http = "404" THEN S_NOT_FOUND
           ELSE IF http = "200" THEN cand ELSE S_ERROR
      [] OTHER -> IF http = "200" THEN cand ELSE S_NA

\* The value get_company_website returns to main.
\*   scrape_domains.py 81-111: only a 200 is parsed, anything else ends in 'N/A'
\*   scrape_domains_SAFE.py 94-123: raise_for_status, every exception -> 'N/A'
\*   scrape_domains_rtlimit.py 152-180: 429 -> 'RATE_LIMITED', else as SAFE
\*   TryAgain.py 64-75, 143-148: 429, 404, other status and exceptions
get_company_website(v, http, cand) ==
    CASE v = "rtlimit" ->
           IF http = "429" THEN S_RATE_LIMITED
           ELSE IF http = "200" THEN cand ELSE S_NA
      [] v = "TryAgain" ->
           IF http = "429" THEN S_RATE_LIMITED
           ELSE IF http = "404" THEN S_NOT_FOUND
           ELSE IF http = "200" THEN cand ELSE S_ERROR
      [] OTHER -> IF http = "200" THEN cand ELSE S_NA

-----------------------------------------------------------------------------
(* Saving.                                                                  *)

\* The save interval: `% 50` in scrape_domains_SAFE.py 253 and
\* scrape_domains_rtlimit.py 312, `% 25` in TryAgain.py 279, scaled.
SAVE_EVERY_SAFE == 2
SAVE_EVERY_RTLIMIT == 2
SAVE_EVERY_TRYAGAIN == 2

\* No save inside the loop, as in scrape_domains.py: only the final save.
SaveDue_final_only(v, idx, recs) == FALSE

\* Whether the loop body saves after the append: SAFE counts the tickers of
\* this run (i), rtlimit and TryAgain the length of results; scrape_domains.py
\* saves only once, after its loop.
SaveDue(v, idx, recs) ==
    CASE v = "SAFE" -> idx % SAVE_EVERY_SAFE = 0
      [] v = "rtlimit" -> Len(recs) % SAVE_EVERY_RTLIMIT = 0
      [] v = "TryAgain" -> Len(recs) % SAVE_EVERY_TRYAGAIN = 0
      [] OTHER -> FALSE

\* successful_results: r['Domain'] != 'N/A', and in TryAgain.py also
\* r['Website_URL'] not in ['ERROR', 'RATE_LIMITED', 'NOT_FOUND'].  A NaN is
\* different from 'N/A' and is in no list of str.
Successful(v, r) ==
    /\ r["Domain"] # S_NA
    /\ v = "TryAgain" => r["Website_URL"] \notin {S_ERROR, S_RATE_LIMITED, S_NOT_FOUND}

\* sorted(S) for a set of str
RECURSIVE Sorted(_)
Sorted(S) ==
    IF S = {} THEN <<>>
    ELSE LET m == CHOOSE x \in S : \A y \in S \ {x} : StrLess(x, y)
         IN <<m>> \o Sorted(S \ {m})

NoDomainFile == [exists |-> FALSE, lines |-> <<>>]

\* The domain file the second half of save_progress leaves.
\*   sorted(set(...)) raises TypeError when a NaN meets a str: the file is
\*   not opened and stays as it was;
\*   with nothing but NaN the file is opened (truncated) and the first
\*   write, NaN + '\n', raises TypeError;
\*   otherwise one line per domain, sorted.
DomainFileAfter(v, recs, old) ==
    LET doms == {recs[k]["Domain"] : k \in {j \in 1..Len(recs) : Successful(v, recs[j])}}
    IN IF NaN \in doms /\ doms # {NaN} THEN old
       ELSE IF NaN \in doms THEN [exists |-> TRUE, lines |-> <<>>]
       ELSE [exists |-> TRUE, lines |-> Sorted(doms)]

\* What to_csv leaves of the file when the process dies while it writes: it
\* opens the file for writing (that empties it) and writes the header and the
\* rows in order.
Truncations(file) ==
    {[exists |-> TRUE, columns |-> {}, rows |-> <<>>]}
    \cup {[exists |-> TRUE, columns |-> file.columns, rows |-> SubSeq(file.rows, 1, k)] :
            k \in 0..(Len(file.rows) - 1)}

\* How a call of save_progress can go: to its end; to_csv raises OSError when
\* it opens the file (caught at the except clause, nothing written); the
\* process is killed while to_csv writes.
SaveOutcomes == {"ok", "oserror", "killed"}

EmptyLog == [fetched |-> <<>>, rate_limited |-> {}, errored |-> {}]
NoSave == [state |-> "none", recs |-> <<>>, before |-> NoFile]

\* A value that is not computed yet.
Unset == <<"(unset)">>

\* Values of the variables of the pure functions while they are not looked at.
PureIdle ==
    /\ x_script = "SAFE"
    /\ x_url = <<>>
    /\ x_accepted = "unknown"
    /\ x_domain = Unset
    /\ x_again = Unset
    /\ p_script = "TryAgain"
    /\ page = <<>>
    /\ parsed = Unset

\* Values of the variables of a single call while it is not looked at.
FetchIdle ==
    /\ fetcher = "rtlimit"
    /\ f_pc = "idle"
    /\ url_index = 1
    /\ retry_total = 0
    /\ attempts = 0
    /\ slept = 0
    /\ last_outcome = "none"
    /\ f_ret = <<>>
    /\ calls = 0

\* Values of the pipeline variables while the rate limiter is looked at alone.
RunIdle ==
    /\ variant = "rtlimit"
    /\ input = [kind |-> "txt", lines |-> <<>>]
    /\ csv = NoFile
    /\ domfile = NoDomainFile
    /\ pc = "loop"
    /\ tickers = <<>>
    /\ i = 1
    /\ results = <<>>
    /\ run = 1
    /\ log = EmptyLog
    /\ prev = EmptyLog
    /\ csv_at_start = NoFile
    /\ last_save = NoSave

-----------------------------------------------------------------------------
(* Rate limiter, scaled.  The program's windows are 60 s / 3600 s / 86400 s *)
(* with ceilings 50 / 300 / 7000 (scrape_domains_rtlimit.py lines 29-31,    *)
(* 38-73); the model keeps their order and the code that uses them and      *)
(* scales the numbers so that every ceiling is reached.                     *)

MinuteLen == 2
HourLen == 4
DayLen == 8
MAX_PER_MINUTE == 2
MAX_PER_HOUR == 3
MAX_PER_DAY == 5

\* No new call of get_company_website starts at or after MaxTime, or once
\* MaxRequests requests have been counted.
MaxTime == 8
MaxRequests == 7
\* time.sleep(x) sleeps x or longer: up to MaxOversleep ticks longer.
MaxOversleep == 1

\* requests.get either returns a response (any status) or raises a
\* requests.exceptions.RequestException (timeout, connection error).
RtOutcomes == {"response", "exception"}

YahooRateLimiter_init ==
    /\ clock = 0
    /\ now = 0
    /\ requests_per_minute = 0
    /\ requests_per_hour = 0
    /\ requests_per_day = 0
    /\ minute_start = 0
    /\ hour_start = 0
    /\ day_start = 0
    /\ rl_pc = "idle"
    /\ recorded = <<>>

\* Time passes in the main loop, between two calls of get_company_website.
Tick ==
    /\ rl_pc = "idle"
    /\ clock < MaxTime
    /\ clock' = clock + 1
    /\ UNCHANGED <<now, requests_per_minute, requests_per_hour, requests_per_day,
                   minute_start, hour_start, day_start, rl_pc, recorded>>
    /\ UNCHANGED <<runVars, fetchVars, pureVars>>

\* wait_if_needed, lines 35-48: read the clock, reset the elapsed windows.
wait_if_needed_reset ==
    /\ rl_pc = "idle"
    /\ clock < MaxTime
    /\ Len(recorded) < MaxRequests
    /\ now' = clock
    /\ IF clock - minute_start >= MinuteLen
       THEN requests_per_minute' = 0 /\ minute_start' = clock
       ELSE UNCHANGED <<requests_per_minute, minute_start>>
    /\ IF clock - hour_start >= HourLen
       THEN requests_per_hour' = 0 /\ hour_start' = clock
       ELSE UNCHANGED <<requests_per_hour, hour_start>>
    /\ IF clock - day_start >= DayLen
       THEN requests_per_day' = 0 /\ day_start' = clock
       ELSE UNCHANGED <<requests_per_day, day_start>>
    /\ rl_pc' = "minute"
    /\ UNCHANGED <<clock, recorded>>
    /\ UNCHANGED <<runVars, fetchVars, pureVars>>

\* wait_if_needed, lines 51-57.  wait_time is computed from the `now` read at
\* line 35; after the sleep the counter is zeroed and the window restarts at
\* the clock read after the sleep.
wait_if_needed_minute ==
    /\ rl_pc = "minute"
    /\ LET wait_time == MinuteLen - (now - minute_start) IN
       IF requests_per_minute >= MAX_PER_MINUTE /\ wait_time > 0
       THEN \E over \in 0..MaxOversleep :
              /\ clock' = clock + wait_time + 1 + over
              /\ requests_per_minute' = 0
              /\ minute_start' = clock'
       ELSE UNCHANGED <<clock, requests_per_minute, minute_start>>
    /\ rl_pc' = "hour"
    /\ UNCHANGED <<now, requests_per_hour, requests_per_day, hour_start, day_start, recorded>>
    /\ UNCHANGED <<runVars, fetchVars, pureVars>>

\* wait_if_needed, lines 59-65.
wait_if_needed_hour ==
    /\ rl_pc = "hour"
    /\ LET wait_time == HourLen - (now - hour_start) IN
       IF requests_per_hour >= MAX_PER_HOUR /\ wait_time > 0
       THEN \E over \in 0..MaxOversleep :
              /\ clock' = clock + wait_time + 1 + over
              /\ requests_per_hour' = 0
              /\ hour_start' = clock'
       ELSE UNCHANGED <<clock, requests_per_hour, hour_start>>
    /\ rl_pc' = "day"
    /\ UNCHANGED <<now, requests_per_minute, requests_per_day, minute_start, day_start, recorded>>
    /\ UNCHANGED <<runVars, fetchVars, pureVars>>

\* A day check that polls instead of sleeping once: it never leaves.
wait_if_needed_day_polling ==
    /\ rl_pc = "day"
    /\ IF requests_per_day >= MAX_PER_DAY
       THEN UNCHANGED <<clock, requests_per_day, day_start, rl_pc>>
       ELSE rl_pc' = "get" /\ UNCHANGED <<clock, requests_per_day, day_start>>
    /\ UNCHANGED <<now, requests_per_minute, requests_per_hour, minute_start, hour_start, recorded>>
    /\ UNCHANGED <<runVars, fetchVars, pureVars>>

\* wait_if_needed, lines 67-73; then wait_if_needed returns.
wait_if_needed_day ==
    /\ rl_pc = "day"
    /\ LET wait_time == DayLen - (now - day_start) IN
       IF requests_per_day >= MAX_PER_DAY /\ wait_time > 0
       THEN \E over \in 0..MaxOversleep :
              /\ clock' = clock + wait_time + 1 + over
              /\ requests_per_day' = 0
              /\ day_start' = clock'
       ELSE UNCHANGED <<clock, requests_per_day, day_start>>
    /\ rl_pc' = "get"
    /\ UNCHANGED <<now, requests_per_minute, requests_per_hour, minute_start, hour_start, recorded>>
    /\ UNCHANGED <<runVars, fetchVars, pureVars>>

\* record_request, lines 75-79.
record_request ==
    /\ requests_per_minute' = requests_per_minute + 1
    /\ requests_per_hour' = requests_per_hour + 1
    /\ requests_per_day' = requests_per_day + 1

\* get_company_website(ticker, rate_limiter), lines 149-180: requests.get is
\* issued at the current clock; record_request (line 150) runs only when
\* requests.get returned a response, a RequestException (timeout, connection
\* error) jumps to line 171 past it.
rtlimit_request ==
    /\ rl_pc = "get"
    /\ \E o \in RtOutcomes :
         IF o = "exception"
         THEN UNCHANGED <<requests_per_minute, requests_per_hour, requests_per_day, recorded>>
         ELSE record_request /\ recorded' = Append(recorded, clock)
    /\ rl_pc' = "idle"
    /\ UNCHANGED <<clock, now, minute_start, hour_start, day_start>>
    /\ UNCHANGED <<runVars, fetchVars, pureVars>>

InitRL == YahooRateLimiter_init /\ RunIdle /\ FetchIdle /\ PureIdle

NextRL ==
    \/ Tick
    \/ wait_if_needed_reset
    \/ wait_if_needed_minute
    \/ wait_if_needed_hour
    \/ wait_if_needed_day
    \/ rtlimit_request

SpecRL == InitRL /\ [][NextRL]_vars

\* time.sleep returns and the interpreter goes on to the next statement.
FairSpecRL ==
    /\ SpecRL
    /\ WF_vars(wait_if_needed_minute)
    /\ WF_vars(wait_if_needed_hour)
    /\ WF_vars(wait_if_needed_day)

-----------------------------------------------------------------------------
(* The runs of a script.                                                    *)

\* Number of runs of the script.
MaxRuns == 2

\* The ticker files the runs are checked with: upper and lower case, a
\* repeated ticker, and the ticker NA (tickers.csv loses it to dropna).
Inputs ==
    {[kind |-> "txt", lines |-> <<<<"a">>, <<"N","A">>, <<"A">>>>],
     [kind |-> "txt", lines |-> <<<<"a">>, <<"B">>, <<"N","A">>>>],
     [kind |-> "csv", lines |-> <<<<"N","A">>, <<"a">>, <<"B">>>>]}

\* The first run of a script in a directory that holds a ticker file and no
\* output yet.
Init ==
    /\ YahooRateLimiter_init
    /\ FetchIdle
    /\ PureIdle
    /\ variant \in Variants
    /\ input \in Inputs
    /\ csv = NoFile
    /\ domfile = NoDomainFile
    /\ pc = "start"
    /\ tickers = <<>>
    /\ i = 1
    /\ results = <<>>
    /\ run = 1
    /\ log = EmptyLog
    /\ prev = EmptyLog
    /\ csv_at_start = NoFile
    /\ last_save = NoSave

\* main up to its loop: read and deduplicate the tickers, load the existing
\* results, drop the completed tickers; return when nothing is left.
main_start ==
    /\ pc = "start"
    /\ tickers' = TickersToProcess(variant, input, csv)
    /\ results' = InitialResults(variant, csv)
    /\ pc' = IF tickers' = <<>> THEN "done" ELSE "loop"
    /\ i' = 1
    /\ csv_at_start' = csv
    /\ UNCHANGED <<variant, input, csv, domfile, run, log, prev, last_save>>
    /\ UNCHANGED <<rlVars, fetchVars, pureVars>>

\* save_progress with no except clause: the OSError of to_csv leaves
\* save_progress and main as an uncaught exception.
save_progress_uncaught(recs, io, after) ==
    CASE io = "ok" ->
           /\ csv' = to_csv(recs)
           /\ domfile' = DomainFileAfter(variant, recs, domfile)
           /\ last_save' = [state |-> "ok", recs |-> recs, before |-> csv]
           /\ pc' = after
      [] io = "oserror" ->
           /\ UNCHANGED <<csv, domfile>>
           /\ last_save' = [state |-> "failed", recs |-> recs, before |-> csv]
           /\ pc' = "dead"
      [] OTHER ->
           /\ csv' \in Truncations(to_csv(recs))
           /\ UNCHANGED domfile
           /\ last_save' = [state |-> "torn", recs |-> recs, before |-> csv]
           /\ pc' = "dead"

\* save_progress(recs, ...) called from main, which goes on at `after`.
save_progress(recs, io, after) ==
    CASE io = "ok" ->
           /\ csv' = to_csv(recs)
           /\ domfile' = DomainFileAfter(variant, recs, domfile)
           /\ last_save' = [state |-> "ok", recs |-> recs, before |-> csv]
           /\ pc' = after
      [] io = "oserror" ->
           /\ UNCHANGED <<csv, domfile>>
           /\ last_save' = [state |-> "failed", recs |-> recs, before |-> csv]
           /\ pc' = after
      [] OTHER ->
           /\ csv' \in Truncations(to_csv(recs))
           /\ UNCHANGED domfile
           /\ last_save' = [state |-> "torn", recs |-> recs, before |-> csv]
           /\ pc' = "dead"

\* The loop body with no except clause around the request: a timeout or a
\* connection error leaves main as an uncaught exception.
main_iteration_uncaught ==
    /\ pc = "loop"
    /\ i <= Len(tickers)
    /\ \E http \in HttpOutcomes, cand \in Candidates(tickers[i]), io \in SaveOutcomes :
         LET ticker == tickers[i]
             ret == get_company_website(variant, http, cand)
             skipped == variant \in {"rtlimit", "TryAgain"} /\ ret = S_RATE_LIMITED
             newres == IF skipped \/ http = "exception" THEN results
                       ELSE Append(results, Record(variant, ticker, ret))
             due == ~skipped /\ http # "exception" /\ SaveDue(variant, i, newres)
         IN /\ http # "200" => cand = S_NA
            /\ ~due => io = "ok"
            /\ results' = newres
            /\ log' = [fetched |-> Append(log.fetched, ticker),
                       rate_limited |-> IF http = "429" THEN log.rate_limited \cup {ticker}
                                        ELSE log.rate_limited,
                       errored |-> IF http \in {"500", "exception"}
                                   THEN log.errored \cup {ticker} ELSE log.errored]
            /\ IF due THEN save_progress(newres, io, "loop")
               ELSE /\ pc' = IF http = "exception" THEN "dead" ELSE pc
                    /\ UNCHANGED <<csv, domfile, last_save>>
    /\ i' = i + 1
    /\ UNCHANGED <<variant, input, tickers, run, prev, csv_at_start>>
    /\ UNCHANGED <<rlVars, fetchVars, pureVars>>

\* One pass of the loop body: fetch the ticker; rtlimit and TryAgain skip a
\* rate-limited ticker (continue); otherwise append its dict and save when
\* the interval is reached.
main_iteration ==
    /\ pc = "loop"
    /\ i <= Len(tickers)
    /\ \E http \in HttpOutcomes, cand \in Candidates(tickers[i]), io \in SaveOutcomes :
         LET ticker == tickers[i]
             ret == get_company_website(variant, http, cand)
             skipped == variant \in {"rtlimit", "TryAgain"} /\ ret = S_RATE_LIMITED
             newres == IF skipped THEN results
                       ELSE Append(results, Record(variant, ticker, ret))
             due == ~skipped /\ SaveDue(variant, i, newres)
         IN /\ http # "200" => cand = S_NA
            /\ ~due => io = "ok"
            /\ results' = newres
            /\ log' = [fetched |-> Append(log.fetched, ticker),
                       rate_limited |-> IF http = "429"
                                        THEN log.rate_limited \cup {ticker}
                                        ELSE log.rate_limited,
                       errored |-> IF http \in {"500", "exception"}
                                   THEN log.errored \cup {ticker}
                                   ELSE log.errored]
            /\ IF due THEN save_progress(newres, io, "loop")
               ELSE UNCHANGED <<csv, domfile, last_save, pc>>
    /\ i' = i + 1
    /\ UNCHANGED <<variant, input, tickers, run, prev, csv_at_start>>
    /\ UNCHANGED <<rlVars, fetchVars, pureVars>>

\* After the loop: the final save, then main returns.
main_final_save ==
    /\ pc = "loop"
    /\ i > Len(tickers)
    /\ \E io \in SaveOutcomes : save_progress(results, io, "done")
    /\ UNCHANGED <<variant, input, tickers, i, results, run, log, prev, csv_at_start>>
    /\ UNCHANGED <<rlVars, fetchVars, pureVars>>

\* The process is killed inside the loop (Ctrl-C, SIGKILL, power loss): no
\* script catches it, what is only in memory is gone.
kill ==
    /\ pc = "loop"
    /\ pc' = "dead"
    /\ UNCHANGED <<variant, input, csv, domfile, tickers, i, results, run,
                   log, prev, csv_at_start, last_save>>
    /\ UNCHANGED <<rlVars, fetchVars, pureVars>>

\* The script is started again, with the same ticker file and the files the
\* previous run left.
next_run ==
    /\ pc \in {"done", "dead"}
    /\ run < MaxRuns
    /\ run' = run + 1
    /\ pc' = "start"
    /\ tickers' = <<>>
    /\ i' = 1
    /\ results' = <<>>
    /\ prev' = log
    /\ log' = EmptyLog
    /\ csv_at_start' = csv
    /\ last_save' = NoSave
    /\ UNCHANGED <<variant, input, csv, domfile>>
    /\ UNCHANGED <<rlVars, fetchVars, pureVars>>

Next ==
    \/ main_start
    \/ main_iteration
    \/ main_final_save
    \/ kill
    \/ next_run

Spec == Init /\ [][Next]_vars

-----------------------------------------------------------------------------
(* One call of get_company_website, attempt by attempt (SpecFetch).         *)
(* scrape_domains.py sends its requests through a session whose adapter     *)
(* carries urllib3's Retry(total=3, backoff_factor=1, status_forcelist=     *)
(* [429, 500, 502, 503, 504]) and walks through three URL forms; the other  *)
(* scripts call requests.get once.                                          *)

\* Calls of get_company_website looked at.
MaxCalls == 2

\* Retry(total=3, ...)
RETRY_TOTAL == 3

\* Retry(..., backoff_factor=1, ...)
BACKOFF_FACTOR == 1

\* len(urls_to_try)
URLS_TO_TRY == 3

\* Retry(..., status_forcelist=[429, 500, 502, 503, 504]), over HttpOutcomes.
status_forcelist == {"429", "500"}

\* urllib3's Retry.get_backoff_time after n consecutive failed attempts: no
\* pause before the first retry, then backoff_factor * 2^(n-1) seconds.
BackoffTime(n) == IF n <= 1 THEN 0 ELSE BACKOFF_FACTOR * 2^(n - 1)

InitFetch ==
    /\ YahooRateLimiter_init
    /\ RunIdle
    /\ PureIdle
    /\ fetcher \in Variants
    /\ f_pc = "idle"
    /\ url_index = 1
    /\ retry_total = 0
    /\ attempts = 0
    /\ slept = 0
    /\ last_outcome = "none"
    /\ f_ret = <<>>
    /\ calls = 0

\* main calls get_company_website for the next ticker.
fetch_start ==
    /\ f_pc = "idle"
    /\ calls < MaxCalls
    /\ calls' = calls + 1
    /\ f_pc' = "request"
    /\ url_index' = 1
    /\ retry_total' = IF fetcher = "plain" THEN RETRY_TOTAL ELSE 0
    /\ attempts' = 0
    /\ slept' = 0
    /\ last_outcome' = "none"
    /\ f_ret' = <<>>
    /\ UNCHANGED <<fetcher, rlVars, runVars, pureVars>>

\* scrape_domains.py: the for loop goes on with the next URL form, or falls
\* out of the loop to return 'N/A'.
next_url ==
    IF url_index < URLS_TO_TRY
    THEN /\ url_index' = url_index + 1
         /\ retry_total' = RETRY_TOTAL
         /\ f_pc' = "request"
         /\ f_ret' = f_ret
    ELSE /\ f_ret' = S_NA
         /\ f_pc' = "returned"
         /\ UNCHANGED <<url_index, retry_total>>

\* scrape_domains.py: one request sent by session.get for the current URL. A
\* status of the forcelist or a connection error or timeout is retried by
\* the adapter while Retry.total lasts; after that session.get raises, the
\* except clause catches it and the loop continues.
session_get ==
    /\ f_pc = "request"
    /\ fetcher = "plain"
    /\ \E http \in HttpOutcomes, cand \in {U_A, S_NA} :
         /\ http # "200" => cand = S_NA
         /\ attempts' = attempts + 1
         /\ last_outcome' = http
         /\ IF http \in status_forcelist \cup {"exception"}
            THEN IF retry_total > 0
                 THEN /\ retry_total' = retry_total - 1
                      /\ f_pc' = "backoff"
                      /\ UNCHANGED <<url_index, f_ret>>
                 ELSE next_url
            ELSE IF http = "200"
                 THEN /\ f_ret' = cand
                      /\ f_pc' = "returned"
                      /\ UNCHANGED <<url_index, retry_total>>
                 ELSE next_url
    /\ UNCHANGED <<fetcher, slept, calls, rlVars, runVars, pureVars>>

\* The adapter sleeps before it sends the request again.
backoff_sleep ==
    /\ f_pc = "backoff"
    /\ slept' = slept + BackoffTime(RETRY_TOTAL - retry_total)
    /\ f_pc' = "request"
    /\ UNCHANGED <<fetcher, url_index, retry_total, attempts, last_outcome, f_ret,
                   calls, rlVars, runVars, pureVars>>

\* scrape_domains_SAFE.py, scrape_domains_rtlimit.py, TryAgain.py: the one
\* requests.get of the call and the return that follows it.
requests_get ==
    /\ f_pc = "request"
    /\ fetcher # "plain"
    /\ \E http \in HttpOutcomes, cand \in {U_A, S_NA} :
         /\ http # "200" => cand = S_NA
         /\ attempts' = attempts + 1
         /\ last_outcome' = http
         /\ f_ret' = get_company_website(fetcher, http, cand)
         /\ f_pc' = "returned"
    /\ UNCHANGED <<fetcher, url_index, retry_total, slept, calls, rlVars, runVars, pureVars>>

\* main goes on with the returned value.
fetch_return ==
    /\ f_pc = "returned"
    /\ f_pc' = "idle"
    /\ UNCHANGED <<fetcher, url_index, retry_total, attempts, slept, last_outcome,
                   f_ret, calls, rlVars, runVars, pureVars>>

NextFetch ==
    \/ fetch_start
    \/ session_get
    \/ backoff_sleep
    \/ requests_get
    \/ fetch_return

SpecFetch == InitFetch /\ [][NextFetch]_vars

-----------------------------------------------------------------------------
(* One candidate URL through the domain filter and through                  *)
(* extract_domain_from_url (SpecUrl).                                       *)

\* sub in s, for two str
Contains(s, sub) ==
    \E k \in 0..(Len(s) - Len(sub)) : SubSeq(s, k + 1, k + Len(sub)) = sub

\* s.endswith(p)
EndsWith(s, p) ==
    Len(p) <= Len(s) /\ SubSeq(s, Len(s) - Len(p) + 1, Len(s)) = p

\* blocked_domains of is_blocked_domain (scrape_domains_SAFE.py)
blocked_domains ==
    {
    <<"y","a","h","o","o",".","c","o","m">>,
    <<"f","i","n","a","n","c","e",".","y","a","h","o","o",".","c","o","m">>,
    <<"y","i","m","g",".","c","o","m">>,
    <<"y","a","h","o","o","a","p","i","s",".","c","o","m">>,
    <<"y","a","h","o","o",".","u","s","e","r","v","o","i","c","e",".","c","o","m">>,
    <<"y","a","s","t","a","t","i","c",".","n","e","t">>,
    <<"r","i","v","a","l","s",".","c","o","m">>,
    <<"n",".","r","i","v","a","l","s",".","c","o","m">>,
    <<"s","p","o","r","t","s",".","r","i","v","a","l","s",".","c","o","m">>,
    <<"w","w","w",".","r","i","v","a","l","s",".","c","o","m">>,
    <<"g","o","o","g","l","e","a","d","s","e","r","v","i","c","e","s",".","c","o","m">>,
    <<"g","o","o","g","l","e","s","y","n","d","i","c","a","t","i","o","n",".","c","o","m">>,
    <<"d","o","u","b","l","e","c","l","i","c","k",".","n","e","t">>,
    <<"g","o","o","g","l","e","t","a","g","m","a","n","a","g","e","r",".","c","o","m">>,
    <<"g","o","o","g","l","e","-","a","n","a","l","y","t","i","c","s",".","c","o","m">>,
    <<"g","o","o","g","l","e","a","n","a","l","y","t","i","c","s",".","c","o","m">>,
    <<"o","u","t","b","r","a","i","n",".","c","o","m">>,
    <<"t","a","b","o","o","l","a",".","c","o","m">>,
    <<"a","d","s","y","s","t","e","m",".","c","o","m">>,
    <<"a","m","a","z","o","n","-","a","d","s","y","s","t","e","m",".","c","o","m">>,
    <<"f","a","c","e","b","o","o","k",".","c","o","m">>,
    <<"t","w","i","t","t","e","r",".","c","o","m">>,
    <<"l","i","n","k","e","d","i","n",".","c","o","m">>,
    <<"y","o","u","t","u","b","e",".","c","o","m">>,
    <<"i","n","s","t","a","g","r","a","m",".","c","o","m">>,
    <<"t","i","k","t","o","k",".","c","o","m">>,
    <<"p","i","n","t","e","r","e","s","t",".","c","o","m">>,
    <<"s","e","c",".","g","o","v">>,
    <<"e","d","g","a","r",".","s","e","c",".","g","o","v">>,
    <<"b","l","o","o","m","b","e","r","g",".","c","o","m">>,
    <<"r","e","u","t","e","r","s",".","c","o","m">>,
    <<"m","a","r","k","e","t","w","a","t","c","h",".","c","o","m">>,
    <<"f","o","o","l",".","c","o","m">>,
    <<"s","e","e","k","i","n","g","a","l","p","h","a",".","c","o","m">>,
    <<"c","n","b","c",".","c","o","m">>,
    <<"w","s","j",".","c","o","m">>,
    <<"f","t",".","c","o","m">>,
    <<"b","a","r","r","o","n","s",".","c","o","m">>
    }

\* ad_patterns of is_blocked_domain
ad_patterns ==
    {
    <<"a","d","s">>,
    <<"a","d","-">>,
    <<"t","r","a","c","k">>,
    <<"a","n","a","l","y","t","i","c","s">>,
    <<"p","i","x","e","l">>,
    <<"b","e","a","c","o","n">>
    }

\* is_blocked_domain(url) of scrape_domains_SAFE.py: the lower-cased netloc is
\* in the blocklist, or holds an entry of the blocklist or an ad pattern
\* anywhere in it.
is_blocked_domain(url) ==
    IF url = <<>> THEN TRUE
    ELSE LET domain == Lower(Netloc(url))
         IN \/ domain \in blocked_domains
            \/ \E blocked \in blocked_domains : Contains(domain, blocked)
            \/ \E pattern \in ad_patterns : Contains(domain, pattern)

\* blocked_patterns of is_valid_company_domain (scrape_domains_rtlimit.py)
blocked_patterns ==
    {
    <<"y","a","h","o","o">>,
    <<"r","i","v","a","l","s">>,
    <<"o","u","t","b","r","a","i","n">>,
    <<"t","a","b","o","o","l","a">>,
    <<"d","o","u","b","l","e","c","l","i","c","k">>,
    <<"f","a","c","e","b","o","o","k">>,
    <<"t","w","i","t","t","e","r">>,
    <<"l","i","n","k","e","d","i","n">>,
    <<"y","o","u","t","u","b","e">>,
    <<"i","n","s","t","a","g","r","a","m">>,
    <<"j","a","v","a","s","c","r","i","p","t",":">>,
    <<"m","a","i","l","t","o",":">>,
    <<"s","e","c",".","g","o","v">>,
    <<"b","l","o","o","m","b","e","r","g">>,
    <<"r","e","u","t","e","r","s">>
    }

\* is_valid_company_domain(url) of scrape_domains_rtlimit.py
is_valid_company_domain(url) ==
    IF url = <<>> \/ url = S_NA THEN FALSE
    ELSE LET domain == Lower(Netloc(url))
         IN IF \E pattern \in blocked_patterns : Contains(domain, pattern) THEN FALSE
            ELSE (StartsWith(url, S_http) \/ StartsWith(url, S_https)) /\ Len(url) > 10

\* The candidates: a scheme or none, www. labels or none, a host or none, a
\* path or none; and the sentinel 'N/A'.
Schemes == {<<>>, S_https, S_http}
WwwLabels == {<<>>, S_www, <<"W","W","W",".">>, S_www \o S_www}
Hosts ==
    {<<>>, <<"a","p","p","l","e",".","c","o","m">>, <<"E","x","a","m","p","l","e",".","c","o","m">>,
     <<"m","i","c","r","o","s","o","f","t",".","c","o","m">>,
     <<"r","i","v","a","l","s",".","c","o","m">>,
     <<"s","p","o","r","t","s",".","r","i","v","a","l","s",".","c","o","m">>}
Paths == {<<>>, <<"/","p","a","t","h">>}

CandidateUrls ==
    {sc \o w \o h \o pa : sc \in Schemes, w \in WwwLabels, h \in Hosts, pa \in Paths}
    \cup {S_NA}

InitUrl ==
    /\ YahooRateLimiter_init
    /\ RunIdle
    /\ FetchIdle
    /\ x_script \in Variants
    /\ x_url \in CandidateUrls
    /\ x_accepted = "unknown"
    /\ x_domain = Unset
    /\ x_again = Unset
    /\ p_script = "TryAgain"
    /\ page = <<>>
    /\ parsed = Unset

\* get_company_website puts a link of the page to the filter of its script.
filter_candidate ==
    /\ x_accepted = "unknown"
    /\ x_script \in {"SAFE", "rtlimit"}
    /\ LET ok == IF x_script = "SAFE" THEN ~is_blocked_domain(x_url)
                 ELSE is_valid_company_domain(x_url)
       IN x_accepted' = IF ok THEN "accepted" ELSE "rejected"
    /\ UNCHANGED <<x_script, x_url, x_domain, x_again, parseVars, rlVars, runVars, fetchVars>>

\* domain = extract_domain_from_url(website_url)
normalize ==
    /\ x_domain = Unset
    /\ x_domain' = extract_domain_from_url(x_script, x_url)
    /\ UNCHANGED <<x_script, x_url, x_accepted, x_again, parseVars, rlVars, runVars, fetchVars>>

\* extract_domain_from_url applied to its own result.
normalize_again ==
    /\ x_domain # Unset
    /\ x_again = Unset
    /\ x_again' = extract_domain_from_url(x_script, x_domain)
    /\ UNCHANGED <<x_script, x_url, x_accepted, x_domain, parseVars, rlVars, runVars, fetchVars>>

NextUrl ==
    \/ filter_candidate
    \/ normalize
    \/ normalize_again

SpecUrl == InitUrl /\ [][NextUrl]_vars

-----------------------------------------------------------------------------
(* The extraction of the website from one page (SpecParse): Methods 1-3 of  *)
(* get_company_website in TryAgain.py and of parse_website_from_content in  *)
(* scrape_domains.py.                                                       *)
(* A page is the sequence of its elements that carry a URL, in document     *)
(* order.  An element is                                                    *)
(*   "website_label": a link the page shows under the label Website,        *)
(*   "contact":       a link inside an element whose text says contact,     *)
(*   "text":          a URL written in the text of the page, not a link,    *)
(*   "anchor":        any other link.                                       *)
(* All but "text" are <a href> elements and are seen by find_all('a').      *)

\* Elements of a page.
MaxPage == 2

ElementKinds == {"website_label", "contact", "text", "anchor"}

\* A link to a social network, skipped by every scan.
U_F == <<"h","t","t","p","s",":","/","/","f","a","c","e","b","o","o","k",".","c","o","m","/","b">>

Hrefs == {U_A, U_B, U_F}

Elements == [kind : ElementKinds, href : Hrefs]

Pages == UNION {[1..n -> Elements] : n \in 0..MaxPage}

\* The hrefs of the elements of the page that are of a kind in `kinds`, in
\* document order.
HrefsOf(pg, kinds) ==
    LET sel == SelectSeq(pg, LAMBDA e : e.kind \in kinds)
    IN [k \in 1..Len(sel) |-> sel[k].href]

\* The first element of a sequence of str that satisfies Test, 'N/A' if none.
FirstThat(seq, Test(_)) ==
    LET hits == SelectSeq(seq, Test)
    IN IF hits = <<>> THEN S_NA ELSE hits[1]

Anchors == {"website_label", "contact", "anchor"}

S_www_no_dot == <<"w","w","w">>
S_http_bare == <<"h","t","t","p">>
S_dot_com == <<".","c","o","m">>

\* any(skip in href.lower() for skip in [...])
AnySkip(href, skips) == \E skip \in skips : Contains(Lower(href), skip)

\* href.startswith(('http', 'www')) or '.com' in href
LooksLikeUrl(href) ==
    StartsWith(href, S_http_bare) \/ StartsWith(href, S_www_no_dot) \/ Contains(href, S_dot_com)

\* ---- TryAgain.py ----
skip_method2 ==
    {<<"s","t","o","c","k","a","n","a","l","y","s","i","s",".","c","o","m">>,
     <<"m","a","i","l","t","o",":">>,
     <<"t","e","l",":">>,
     <<"j","a","v","a","s","c","r","i","p","t",":">>,
     <<"f","a","c","e","b","o","o","k",".">>,
     <<"t","w","i","t","t","e","r",".">>,
     <<"l","i","n","k","e","d","i","n",".">>,
     <<"y","o","u","t","u","b","e",".">>}

skip_method3 ==
    {<<"s","t","o","c","k","a","n","a","l","y","s","i","s",".","c","o","m">>,
     <<"m","a","i","l","t","o",":">>,
     <<"t","e","l",":">>,
     <<"j","a","v","a","s","c","r","i","p","t",":">>,
     <<"f","a","c","e","b","o","o","k",".">>,
     <<"t","w","i","t","t","e","r",".">>,
     <<"l","i","n","k","e","d","i","n",".">>,
     <<"y","o","u","t","u","b","e",".">>,
     <<"s","e","c",".","g","o","v">>,
     <<"e","d","g","a","r">>}

\* Method 1: the link in the cell after the cell whose text is Website.
TryAgain_method1(pg) == FirstThat(HrefsOf(pg, {"website_label"}), LAMBDA h : TRUE)

\* Method 2: the first link of a contact section that is not skipped.
TryAgain_method2(pg) ==
    FirstThat(HrefsOf(pg, {"contact"}),
              LAMBDA h : h # <<>> /\ ~AnySkip(h, skip_method2) /\ LooksLikeUrl(h))

\* Method 3: the first link of the page that is not skipped.
TryAgain_method3(pg) ==
    FirstThat(HrefsOf(pg, Anchors),
              LAMBDA h : h # <<>> /\ ~AnySkip(h, skip_method3) /\ LooksLikeUrl(h))

\* ---- scrape_domains.py ----
skip_patterns ==
    {<<"y","a","h","o","o">>,
     <<"f","i","n","a","n","c","e",".","y","a","h","o","o">>,
     <<"y","i","m","g">>,
     <<"j","a","v","a","s","c","r","i","p","t">>,
     <<"m","a","i","l","t","o">>,
     <<"f","a","c","e","b","o","o","k">>,
     <<"t","w","i","t","t","e","r">>,
     <<"l","i","n","k","e","d","i","n">>,
     <<"y","o","u","t","u","b","e">>,
     <<"i","n","s","t","a","g","r","a","m">>}

skip_links ==
    {<<"y","a","h","o","o">>,
     <<"f","i","n","a","n","c","e",".","y","a","h","o","o">>,
     <<"y","i","m","g",".","c","o","m">>,
     <<"j","a","v","a","s","c","r","i","p","t",":">>,
     <<"m","a","i","l","t","o",":">>,
     <<"f","a","c","e","b","o","o","k",".","c","o","m">>,
     <<"t","w","i","t","t","e","r",".","c","o","m">>,
     <<"l","i","n","k","e","d","i","n",".","c","o","m">>,
     <<"y","o","u","t","u","b","e",".","c","o","m">>,
     <<"i","n","s","t","a","g","r","a","m",".","c","o","m">>,
     <<"s","e","c",".","g","o","v">>,
     <<"e","d","g","a","r">>,
     <<"#">>,
     <<"?">>,
     <<"n","e","w","s",".","y","a","h","o","o">>,
     <<"s","p","o","r","t","s",".","y","a","h","o","o">>}

\* What r'https?://[\w\-\.]+\.[\w]{2,}' matches of a URL in the text: the
\* scheme and the host.
PatternMatch(u) ==
    IF StartsWith(u, S_https) THEN S_https \o Netloc(u) ELSE S_http \o Netloc(u)

\* Method 1: the patterns over the text of the page, one pattern after the
\* other: first the URLs with www., then any URL with a scheme.
plain_method1(pg) ==
    LET found == [k \in 1..Len(HrefsOf(pg, {"text"})) |-> PatternMatch(HrefsOf(pg, {"text"})[k])]
        kept(m) == ~AnySkip(m, skip_patterns)
        with_www == FirstThat(found, LAMBDA m : StartsWith(Netloc(m), S_www) /\ kept(m))
    IN IF with_www # S_NA THEN with_www ELSE FirstThat(found, kept)

\* Method 2: the first external link of the page.
plain_method2(pg) ==
    FirstThat(HrefsOf(pg, Anchors),
              LAMBDA h : /\ h # <<>>
                         /\ (StartsWith(h, S_http) \/ StartsWith(h, S_https))
                         /\ Len(h) > 15
                         /\ ~AnySkip(h, skip_links)
                         /\ Contains(Netloc(h), <<".">>))

\* Method 3: the first link next to a text that says website.
plain_method3(pg) ==
    FirstThat(HrefsOf(pg, {"website_label"}),
              LAMBDA h : StartsWith(h, S_http_bare) /\ ~Contains(Lower(h), <<"y","a","h","o","o">>))

\* The website the extraction of a script returns for a page.
parse_website_from_content(s, pg) ==
    IF s = "TryAgain"
    THEN IF TryAgain_method1(pg) # S_NA THEN TryAgain_method1(pg)
         ELSE IF TryAgain_method2(pg) # S_NA THEN TryAgain_method2(pg)
         ELSE TryAgain_method3(pg)
    ELSE IF plain_method1(pg) # S_NA THEN plain_method1(pg)
         ELSE IF plain_method2(pg) # S_NA THEN plain_method2(pg)
         ELSE plain_method3(pg)

InitParse ==
    /\ YahooRateLimiter_init
    /\ RunIdle
    /\ FetchIdle
    /\ x_script = "SAFE"
    /\ x_url = <<>>
    /\ x_accepted = "unknown"
    /\ x_domain = Unset
    /\ x_again = Unset
    /\ p_script \in {"TryAgain", "plain"}
    /\ page \in Pages
    /\ parsed = Unset

\* The page is parsed.
parse_page ==
    /\ parsed = Unset
    /\ parsed' = parse_website_from_content(p_script, page)
    /\ UNCHANGED <<p_script, page, urlVars, rlVars, runVars, fetchVars>>

NextParse == parse_page

SpecParse == InitParse /\ [][NextParse]_vars

-----------------------------------------------------------------------------
(* Claims about the rate limiter (SpecRL, FairSpecRL).                      *)

\* The number of counted requests issued in the interval (t - len, t].
InSlidingWindow(len, t) ==
    Cardinality({j \in 1..Len(recorded) : recorded[j] > t - len /\ recorded[j] <= t})

\* C1: for each window (minute, hour, day), the number of requests gated by the
\* limiter (wait_if_needed before, record_request after) whose timestamps fall
\* inside any sliding interval of the window's length never exceeds the
\* window's ceiling.
C1_SlidingWindowCeiling ==
    \A n \in 1..Len(recorded) :
        /\ InSlidingWindow(MinuteLen, recorded[n]) <= MAX_PER_MINUTE
        /\ InSlidingWindow(HourLen, recorded[n]) <= MAX_PER_HOUR
        /\ InSlidingWindow(DayLen, recorded[n]) <= MAX_PER_DAY

\* C7: every HTTP request issued by get_company_website of
\* scrape_domains_rtlimit.py, whatever its outcome, increments each of the
\* three window counters by exactly one.
C7_EveryRequestCounted ==
    [][(rl_pc = "get" /\ rl_pc' = "idle") =>
         /\ requests_per_minute' = requests_per_minute + 1
         /\ requests_per_hour' = requests_per_hour + 1
         /\ requests_per_day' = requests_per_day + 1]_vars

\* C8: every call of wait_if_needed eventually returns (the request is then
\* issued), in every reachable limiter state.
C8_WaitReturns == (rl_pc \in {"minute", "hour", "day"}) ~> (rl_pc = "get")

\* wait_if_needed has returned after sleeping at a full day window.
C8_Witness == rl_pc = "get" /\ clock > now /\ day_start = clock /\ Len(recorded) >= MAX_PER_DAY

-----------------------------------------------------------------------------
(* Claims about the runs (Spec).                                            *)

Range(s) == {s[k] : k \in 1..Len(s)}

\* C2: in the loops of scrape_domains_rtlimit.py and TryAgain.py, a fetch that
\* returns RATE_LIMITED leaves results and the files unchanged and the loop
\* goes on with the next ticker; at the start of the next run the ticker is
\* still in the list left by the completed-set filter.
C2_RateLimitedDeferred ==
    [][/\ (/\ pc = "loop"
           /\ variant \in {"rtlimit", "TryAgain"}
           /\ log'.rate_limited # log.rate_limited)
          => (/\ results' = results
              /\ csv' = csv
              /\ pc' = "loop"
              /\ i' = i + 1)
       /\ (pc = "start" /\ variant \in {"rtlimit", "TryAgain"})
          => prev.rate_limited \subseteq Range(tickers')]_vars

\* A second run that has kept a ticker the first run skipped as rate-limited,
\* next to records the first run saved.
C2_Witness ==
    /\ variant \in {"rtlimit", "TryAgain"}
    /\ run = 2
    /\ pc = "loop"
    /\ prev.rate_limited # {}
    /\ prev.rate_limited \subseteq Range(tickers)
    /\ results # <<>>

\* Every ticker of the ticker file has a row in the file.
AllPersisted(inp, file) ==
    /\ file.exists
    /\ \A t \in Range(ReadTickers(inp)) :
          \E k \in 1..Len(file.rows) : file.rows[k]["Ticker"] = t

\* C3: a run of a resuming script (SAFE, rtlimit, TryAgain) that finds a
\* persisted record for every ticker of its input issues no fetch and leaves
\* the persisted record store unchanged.
C3_IdempotentResume ==
    (variant # "plain" /\ AllPersisted(input, csv_at_start))
        => (log.fetched = <<>> /\ csv = csv_at_start)

\* C4: after a save_progress that wrote the CSV, loading the file reproduces
\* the saved list of records, field by field and in order, and a completed
\* set equal to the set of their tickers.
C4_FlushLoadRoundTrip ==
    last_save.state = "ok"
        => /\ load_existing_results(csv).results = last_save.recs
           /\ existing_results(csv) = last_save.recs
           /\ load_existing_results(csv).completed = TickerColumn(last_save.recs)

\* C5: whatever happens to the process during save_progress, the output file
\* is either what it was before the call or the complete new content.
C5_FlushAtomic ==
    last_save.state # "none"
        => (csv = last_save.before \/ csv = to_csv(last_save.recs))

\* C6: after every save of a run, every row the output file held when the run
\* started is still in it, unmodified.
C6_AppendOnly ==
    last_save.state = "ok"
        => /\ Len(csv.rows) >= Len(csv_at_start.rows)
           /\ \A k \in 1..Len(csv_at_start.rows) : csv.rows[k] = csv_at_start.rows[k]

\* C9: a fetch attempt that fails at transport level or with HTTP 5xx is
\* retried up to the attempt budget of 3: the fetcher never sends more than 3
\* requests for an identifier, and it gives up on the identifier after such a
\* failure only when the 3 attempts are used.
C9_BoundedRetry ==
    /\ attempts <= 3
    /\ (f_pc = "returned" /\ last_outcome \in {"500", "exception"}) => attempts = 3

\* C10: a ticker whose fetch ended in a transport error or an HTTP error in
\* one run is in the list the next run fetches.
C10_ErrorsRetriedNextRun ==
    [][pc = "start" => prev.errored \subseteq Range(tickers')]_vars

\* C11: a response with status 429 ends the call of get_company_website with
\* the value RATE_LIMITED: no further request is sent for the ticker and no
\* other value is returned.
C11_RateLimitedClassified ==
    last_outcome = "429" => (f_pc \in {"returned", "idle"} /\ f_ret = S_RATE_LIMITED)

\* C12: in TryAgain.py a ticker whose page answers 404 gets a record whose
\* Website_URL is NOT_FOUND and whose Domain is the sentinel 'N/A'.
C12_NotFoundRecord ==
    variant = "TryAgain"
        => \A k \in 1..Len(results) :
              results[k]["Website_URL"] = S_NOT_FOUND => results[k]["Domain"] = S_NA

\* C13: whatever the outcome of the fetch for one ticker (a status other than
\* 200, a timeout or connection error, a page with no website), the loop of
\* main goes on: the step leaves main in its loop unless the process is killed
\* while it saves, and a run that returns has fetched every ticker of its list.
C13_FailuresDoNotAbort ==
    /\ [](pc = "done" => log.fetched = tickers)
    /\ [][(pc = "loop" /\ log'.fetched # log.fetched)
             => (pc' = "loop" \/ last_save'.state = "torn")]_vars

\* A run that returned after the fetch for its first ticker ended in an error
\* and the fetches for the tickers after it were made.
C13_Witness ==
    /\ pc = "done"
    /\ Len(tickers) >= 2
    /\ tickers[1] \in log.errored
    /\ log.fetched = tickers

\* a is an initial part of b.
IsPrefix(a, b) == Len(a) <= Len(b) /\ SubSeq(b, 1, Len(a)) = a

\* C14: when save_progress fails (to_csv raises), main goes on (in its loop, or
\* to its return after the final save), `results` is the list that was handed
\* to save_progress, and the next call of save_progress is handed a list that
\* starts with the records of the failed call.
C14_FlushFailureSurvivable ==
    [][/\ (last_save' # last_save /\ last_save'.state = "failed")
          => (pc' \in {"loop", "done"} /\ results' = last_save'.recs)
       /\ (last_save.state = "failed" /\ last_save' # last_save /\ last_save'.state # "none")
          => IsPrefix(last_save.recs, last_save'.recs)]_vars

\* A loop that goes on after a failed save, with the unsaved records in memory.
C14_Witness ==
    /\ last_save.state = "failed"
    /\ pc = "loop"
    /\ i <= Len(tickers)
    /\ results = last_save.recs
    /\ csv # to_csv(results)

\* C15: however a run that has appended at least one record ends (main
\* returns, or the loop is interrupted), its last act is a call of
\* save_progress with the whole list `results`.
C15_FinalFlush ==
    (/\ pc \in {"done", "dead"}
     /\ Len(results) > Len(InitialResults(variant, csv_at_start)))
        => (last_save.state # "none" /\ last_save.recs = results)

\* The position of the first line of the ticker file that reads as ticker t.
FirstLine(t) ==
    CHOOSE n \in 1..Len(input.lines) :
        /\ Upper(Strip(input.lines[n])) = t
        /\ \A m \in 1..(n - 1) : Upper(Strip(input.lines[m])) # t

\* C16: the list of tickers main is left with before its loop holds no two
\* tickers that are equal up to case, every one of them is a line of the
\* ticker file, and they stand in the order of their first lines; no ticker
\* is fetched twice in one run.
C16_InputDeduplicated ==
    /\ [](\A j, k \in 1..Len(log.fetched) : j < k => log.fetched[j] # log.fetched[k])
    /\ [][pc = "start"
            => /\ \A j, k \in 1..Len(tickers') :
                     j < k => /\ Lower(tickers'[j]) # Lower(tickers'[k])
                              /\ FirstLine(tickers'[j]) < FirstLine(tickers'[k])
               /\ \A k \in 1..Len(tickers') :
                     \E n \in 1..Len(input.lines) :
                        Upper(Strip(input.lines[n])) = tickers'[k]]_vars

\* A first run over the file a, NA, A that fetched A and NA, each once.
C16_Witness ==
    /\ pc = "done"
    /\ run = 1
    /\ input.lines = <<<<"a">>, <<"N", "A">>, <<"A">>>>
    /\ log.fetched = <<<<"A">>, <<"N", "A">>>>


-----------------------------------------------------------------------------
(* Claims about the filter and the normalization (SpecUrl).                 *)

\* C17: extract_domain_from_url applied to its own result returns that result,
\* for every candidate and in every script.
C17_NormalizationIdempotent ==
    x_again # Unset => x_again = x_domain

\* The normal form of a candidate: the scheme stripped, the host (what stands
\* before the first "/", "?" or "#") lower-cased and without one leading
\* www. label; 'N/A' when there is no host.
NormalForm(url) ==
    LET rest == IF StartsWith(url, S_https) THEN DropFirst(url, Len(S_https))
                ELSE IF StartsWith(url, S_http) THEN DropFirst(url, Len(S_http))
                ELSE url
        host == Lower(UpToDelimiter(rest))
        bare == IF StartsWith(host, S_www) THEN DropFirst(host, Len(S_www)) ELSE host
    IN IF url = S_NA \/ bare = <<>> THEN S_NA ELSE bare

\* C18: extract_domain_from_url returns the normal form of its argument: no
\* scheme, no leading www. label, the host in lower case
\* ("https://WWW.Example.com/path" gives "example.com"), and 'N/A' for an
\* empty candidate or one without a host.
C18_NormalizationCanonical ==
    x_domain # Unset => x_domain = NormalForm(x_url)

\* C19: the domain filter (is_blocked_domain of scrape_domains_SAFE.py,
\* is_valid_company_domain of scrape_domains_rtlimit.py) rejects a candidate
\* whose host is an entry of the blocklist or a subdomain of one, and accepts
\* an http(s) candidate whose host is neither.
C19_DomainFilter ==
    x_accepted # "unknown"
        => LET host == Lower(Netloc(x_url))
               list == IF x_script = "SAFE" THEN blocked_domains ELSE blocked_patterns
               listed == \E b \in list : host = b \/ EndsWith(host, <<".">> \o b)
           IN /\ listed => x_accepted = "rejected"
              /\ (host # <<>> /\ ~listed) => x_accepted = "accepted"

-----------------------------------------------------------------------------
(* Claims about the extraction (SpecParse).                                 *)

\* What each strategy of a script yields for a page ('N/A': nothing, or the
\* script has no such strategy).
StructuredLabel(s, pg) == IF s = "TryAgain" THEN TryAgain_method1(pg) ELSE plain_method3(pg)
LabeledSection(s, pg) == IF s = "TryAgain" THEN TryAgain_method2(pg) ELSE S_NA
PatternScan(s, pg) == IF s = "TryAgain" THEN S_NA ELSE plain_method1(pg)
GenericLink(s, pg) == IF s = "TryAgain" THEN TryAgain_method3(pg) ELSE plain_method2(pg)

\* C20: the extraction returns the candidate of the first strategy that yields
\* one, in the order structured label, labeled section, pattern scan over the
\* text, generic link scan; a page with a link under the label Website and
\* another link gives the link under the label.
C20_ExtractionPriority ==
    parsed # Unset
        => parsed = (IF StructuredLabel(p_script, page) # S_NA THEN StructuredLabel(p_script, page)
                     ELSE IF LabeledSection(p_script, page) # S_NA THEN LabeledSection(p_script, page)
                     ELSE IF PatternScan(p_script, page) # S_NA THEN PatternScan(p_script, page)
                     ELSE GenericLink(p_script, page))

-----------------------------------------------------------------------------
(* Claims about the domain file and the save interval (Spec).               *)

\* A record whose ticker was resolved: its Website_URL is a URL, not 'N/A',
\* not a status word and not a missing value.
Resolved(r) ==
    r["Website_URL"] \notin {S_NA, S_ERROR, S_NOT_FOUND, S_RATE_LIMITED, NaN, <<>>}

\* C21: after every save_progress that wrote the CSV, in a first run and in a
\* resumed run, the domain file holds exactly the domains of the resolved
\* records, each once, sorted; it holds no 'N/A' and no entry of an error,
\* not-found or rate-limited record.
C21_DerivedDomainList ==
    last_save.state = "ok"
        => /\ domfile.exists
           /\ domfile.lines =
                Sorted({last_save.recs[k]["Domain"] :
                          k \in {j \in 1..Len(last_save.recs) : Resolved(last_save.recs[j])}})

\* The save interval of a script.
SaveEvery(v) ==
    CASE v = "SAFE" -> SAVE_EVERY_SAFE
      [] v = "rtlimit" -> SAVE_EVERY_RTLIMIT
      [] OTHER -> SAVE_EVERY_TRYAGAIN

LenAtLastSave ==
    IF last_save.state = "none" THEN Len(csv.rows) ELSE Len(last_save.recs)

-----------------------------------------------------------------------------
(* Claim about the checks of wait_if_needed after a sleep (SpecRL).         *)

\* The clock moves inside wait_if_needed only by its sleeps, so `clock > now`
\* in the middle of a call says that the call has slept.
HasSlept == rl_pc \in {"hour", "day", "get"} /\ clock > now

\* C23: when wait_if_needed has slept for one window, (a) every window that
\* elapsed during the sleep has been reset by the time the request is
\* permitted, and (b) a further sleep, for the hour or the day window, happens
\* only if that window has not elapsed at the time after the first sleep, and
\* lasts the time left of the window at that time (plus the margin of one and
\* the oversleep).
C23_RecheckAfterSleep ==
    /\ [](rl_pc = "get" /\ HasSlept
            => /\ clock - minute_start < MinuteLen
               /\ clock - hour_start < HourLen
               /\ clock - day_start < DayLen)
    /\ [][(HasSlept /\ rl_pc = "hour" /\ clock' > clock)
            => /\ clock - hour_start < HourLen
               /\ clock' - clock \in
                    {HourLen - (clock - hour_start) + 1 + over : over \in 0..MaxOversleep}]_vars
    /\ [][(HasSlept /\ rl_pc = "day" /\ clock' > clock)
            => /\ clock - day_start < DayLen
               /\ clock' - clock \in
                    {DayLen - (clock - day_start) + 1 + over : over \in 0..MaxOversleep}]_vars

=============================================================================
